---- MODULE Spec2Model ----
(***************************************************************************)
(* Model of the image-canvas-player component App (src/src/App.tsx).       *)
(*                                                                         *)
(* The component is mounted in a React 18 root (createRoot).  A state      *)
(* update and the commit of the render it causes are one step of the       *)
(* model.  The passive effects (useEffect) of a commit caused by a         *)
(* discrete user event (click, slider change) run in the same step; those  *)
(* of a commit caused by an image onload callback or by a timeout callback *)
(* run in a later step (FlushEffects), and timer and animation-frame       *)
(* callbacks that are still pending may fire before it.                    *)
(***************************************************************************)
EXTENDS Integers, Sequences, FiniteSets, TLC

\* ---------------------------------------------------------------- bounds
\* number of image files selected in one run, over all batches
MaxFiles == 3
\* number of slider input events explored in one run
MaxSliderMoves == 1
\* ticks of the frame clock in the duration of one transition
TicksPerTransition == 2

\* slider positions explored by the model (the range inputs give 0..100)
SpeedValues == {60, 100}
DelayValues == {40, 0}
ShadeValues == {20, 0}
VolumeValues == {50, 100}

\* the positions of a range input: integers from min = 0 to max = 100
SliderRange == 0..100

\* rolling when the updater of the timeout callback is not running
NotRolling == 0

\* client sizes of the element that contains the canvas
ContainerSizes == {<<800, 600>>, <<400, 300>>}

\* Timestamps of frame callbacks, in ticks after `start`, the time the
\* effect read when the transition began.  The frame clock is the time at
\* which the frame began, so the callback of a frame that began before the
\* effect ran gets a timestamp before `start`.  The timestamps past the end
\* of the transition are all held as the tick after the end.
Timestamps == (0 - 1)..(TicksPerTransition + 1)

\* last of a frame request made before any frame of the loop was drawn
NoStamp == 0 - 2

\* outcomes of Math.random(): the low half and the high half of [0, 1)
Randoms == {0, 1}

\* painted when no frame was drawn since currentIndex last changed
NoPaint ==
    [kept |-> TRUE, drawn |-> FALSE, alpha |-> 0, jitter |-> 0, angle |-> 0]

\* painted in the specifications that keep no record of the frames drawn
NotKept == [NoPaint EXCEPT !.kept = FALSE]

VARIABLES
    images,        \* the list of entries; an entry is <<batch, file>>
    currentIndex,
    isPlaying,
    speed, delay, shade, volume,
    batches,       \* per upload: number of files, decode status of each file,
                   \* and the isPlaying the handler closed over
    timers,        \* pending timeouts
    timerEffect,   \* last run of the advance effect: dependencies, timeoutId
    frames,        \* pending animation-frame callbacks
    animEffect,    \* last run of the animation effect: dependencies, frameId
    rolling,       \* images.length seen by the updater while its loop runs
    mounted,
    sliderMoves,   \* slider input events so far
    call,          \* one application of a mapping function: its name, the
                   \* argument, whether it has been applied, the result
    canvas,        \* canvas.width and canvas.height
    container,     \* clientWidth and clientHeight of the parent of the canvas
    platform,      \* the timestamps, random numbers and window sizes that
                   \* the browser gives in this run
    audio,         \* the audio element: its source, the state of the load of
                   \* the source, paused, the state of the promise of the
                   \* last play(), loop, volume
    painted        \* history: the last frame drawn since currentIndex last
                   \* changed, in the specifications that keep it

sliders == <<speed, delay, shade, volume>>
reactState == <<images, currentIndex, isPlaying, speed, delay, shade, volume>>
effectState == <<timers, timerEffect, frames, animEffect>>
\* what the handlers of the component leave alone
apart == <<call, canvas, container, platform, audio>>
vars == <<images, currentIndex, isPlaying, speed, delay, shade, volume,
          batches, timers, timerEffect, frames, animEffect,
          rolling, mounted, sliderMoves, call, canvas, container, platform,
          painted, audio>>

\* ------------------------------------------------------- pure functions
\* The code computes both in IEEE doubles (the number type of the language):
\* each of `/`, `*`, `-` and `+` gives the double nearest to the exact
\* result, ties to the even significand.  A non-negative double x is held
\* exactly as [int |-> the integer part, frac |-> the first FracBits bits of
\* the fractional part, as Limbs digits of LimbBits bits each]; no double
\* computed here has a fractional bit beyond them.
\* bits of the significand of a double
Significand == 53

LimbBits == 15

Limbs == 4

FracBits == Limbs * LimbBits

Base == 2 ^ LimbBits

Exact(n) == [int |-> n, frac |-> [j \in 1..Limbs |-> 0]]

\* the i-th bit of the fractional part f, the bit of 1/2 being the first
Bit(f, i) ==
    (f[(i - 1) \div LimbBits + 1]
        \div 2 ^ (LimbBits - 1 - ((i - 1) % LimbBits))) % 2

RECURSIVE BitLen(_)
BitLen(n) == IF n = 0 THEN 0 ELSE 1 + BitLen(n \div 2)

LeadingZeros(f) ==
    IF \A i \in 1..FracBits : Bit(f, i) = 0 THEN FracBits
    ELSE CHOOSE k \in 0..(FracBits - 1) :
            /\ Bit(f, k + 1) = 1
            /\ \A i \in 1..k : Bit(f, i) = 0

\* f without the bits after the first keep bits
Truncate(f, keep) ==
    [j \in 1..Limbs |->
        IF LimbBits * j <= keep THEN f[j]
        ELSE IF LimbBits * (j - 1) >= keep THEN 0
        ELSE LET m == 2 ^ (LimbBits * j - keep) IN (f[j] \div m) * m]

\* x plus amt units of the last place of limb j, the carry going upwards
RECURSIVE AddLimb(_, _, _)
AddLimb(x, j, amt) ==
    IF amt = 0 THEN x
    ELSE IF j = 0 THEN [x EXCEPT !.int = @ + amt]
    ELSE LET t == x.frac[j] + amt
         IN  AddLimb([x EXCEPT !.frac[j] = t % Base], j - 1, t \div Base)

\* x plus one unit of the place of its fractional bit keep
AddUlp(x, keep) ==
    LET j == (keep + LimbBits - 1) \div LimbBits
    IN  AddLimb(x, j, 2 ^ (LimbBits * j - keep))

\* the double nearest to a value, ties to even; the value is x when it is
\* not inexact, and lies between x and the next FracBits-bit number otherwise
RoundToDouble(x, inexact) ==
    LET keep == IF x.int > 0 THEN Significand - BitLen(x.int)
                ELSE LeadingZeros(x.frac) + Significand
        odd == IF keep = 0 THEN x.int % 2 = 1 ELSE Bit(x.frac, keep) = 1
        sticky == inexact \/ \E i \in (keep + 2)..FracBits : Bit(x.frac, i) = 1
        up == Bit(x.frac, keep + 1) = 1 /\ (sticky \/ odd)
        down == [x EXCEPT !.frac = Truncate(x.frac, keep)]
    IN  IF keep >= FracBits THEN x
        ELSE IF up THEN AddUlp(down, keep)
        ELSE down

\* the first k limbs of r / d for r < d, and the remainder
RECURSIVE DivLimbs(_, _, _)
DivLimbs(r, d, k) ==
    IF k = 0 THEN [frac |-> <<>>, rem |-> r]
    ELSE LET rest == DivLimbs((r * Base) % d, d, k - 1)
         IN  [frac |-> <<(r * Base) \div d>> \o rest.frac, rem |-> rest.rem]

\* n / d in doubles, for integers n >= 0 and d > 0
Divide(n, d) ==
    LET t == DivLimbs(n % d, d, Limbs)
    IN  RoundToDouble([int |-> n \div d, frac |-> t.frac], t.rem # 0)

\* the limbs of f * c + carry, from the last limb of f to the first
RECURSIVE MulLimbs(_, _, _)
MulLimbs(f, c, carry) ==
    IF f = <<>> THEN [carry |-> carry, frac |-> <<>>]
    ELSE LET t == f[Len(f)] * c + carry
             r == MulLimbs(SubSeq(f, 1, Len(f) - 1), c, t \div Base)
         IN  [carry |-> r.carry, frac |-> Append(r.frac, t % Base)]

\* x * c in doubles, for an integer c >= 0
Times(x, c) ==
    LET r == MulLimbs(x.frac, c, 0)
    IN  RoundToDouble([int |-> x.int * c + r.carry, frac |-> r.frac], FALSE)

\* n - x in doubles, for an integer n >= x
Minus(n, x) ==
    IF x.frac = Exact(0).frac THEN Exact(n - x.int)
    ELSE RoundToDouble(
             AddLimb([int |-> n - x.int - 1,
                      frac |-> [j \in 1..Limbs |-> Base - 1 - x.frac[j]]],
                     Limbs, 1),
             FALSE)

\* n + x in doubles, for an integer n >= 0
Plus(n, x) == RoundToDouble([int |-> n + x.int, frac |-> x.frac], FALSE)

\* x < y
Less(x, y) ==
    \/ x.int < y.int
    \/ /\ x.int = y.int
       /\ \E j \in 1..Limbs :
            /\ x.frac[j] < y.frac[j]
            /\ \A i \in 1..(j - 1) : x.frac[i] = y.frac[i]

\* variant of mapSpeedToDuration: the speed is divided by 100 last
mapSpeedToDurationDivLast(s) ==
    LET min == 600
        max == 4000
    IN  Minus(max, Divide(s * (max - min), 100))

\* `max - (speed / 100) * (max - min)`
mapSpeedToDuration(s) ==
    LET min == 600
        max == 4000
    IN  Minus(max, Times(Divide(s, 100), max - min))

\* variant of mapDelayToMs: the delay is divided by 100 last
mapDelayToMsDivLast(d) ==
    LET min == 500
        max == 6000
    IN  Plus(min, Divide(d * (max - min), 100))

\* `min + (delay / 100) * (max - min)`
mapDelayToMs(d) ==
    LET min == 500
        max == 6000
    IN  Plus(min, Times(Divide(d, 100), max - min))

\* the results at the slider positions, computed once
Durations == [s \in SliderRange |-> mapSpeedToDuration(s)]

Delays == [d \in SliderRange |-> mapDelayToMs(d)]

\* `volume / 100` at every slider position
Volumes == [v \in SliderRange |-> Divide(v, 100)]

\* ---------------------------------------------------------- image batches
\* variant of newEntries: the entries are pushed in front of one another
newEntriesReversed(b) == [i \in 1..batches[b].n |-> <<b, batches[b].n + 1 - i>>]

\* newEntries of a batch: one entry per selected file, in selection order
newEntries(b) == [i \in 1..batches[b].n |-> <<b, i>>]

loadedCountOf(st) == Cardinality({i \in DOMAIN st : st[i] = "loaded"})

\* variant of BatchFinished: the list is updated as soon as a file has loaded
BatchFinishedEarly(st, n) == loadedCountOf(st) >= 1

\* `loadedCount === files.length`: every file of the batch has loaded
BatchFinished(st, n) == loadedCountOf(st) = n

RECURSIVE FilesIn(_)
FilesIn(bs) == IF bs = <<>> THEN 0 ELSE Head(bs).n + FilesIn(Tail(bs))

\* ------------------------------------------------- advance timer effect
\* variant of TimerDeps: currentIndex is not among the dependencies
TimerDepsNoIndex(p, n, d, idx) ==
    [isPlaying |-> p, len |-> n, delay |-> d, currentIndex |-> 0]

\* the dependencies [isPlaying, images.length, delay, currentIndex]
TimerDeps(p, n, d, idx) ==
    [isPlaying |-> p, len |-> n, delay |-> d, currentIndex |-> idx]

\* variant of TooFewImages: `images.length < 1`
TooFewImagesOffByOne(n) == n < 1

\* the test `images.length <= 1` of the effect body and of the updater
TooFewImages(n) == n <= 1

\* window.setTimeout: the handle of a timer is the render it was armed in,
\* so the handles of two consecutive runs of the effect differ
setTimeout(deps, ms) == [id |-> deps, len |-> deps.len, delayMs |-> ms]

\* id: the handle held by the cleanup, none when the body returned early
\* variant of clearTimeout: the effect returns no cleanup
clearTimeoutMissing(ts, id) == ts

clearTimeout(ts, id) == {t \in ts : t.id \notin id}

\* one run of the effect (cleanup of the previous run, then the body) when
\* its dependencies changed; the result is the new timer set and effect state
AdvanceEffect(ts, eff, p, n, d, idx) ==
    LET deps == TimerDeps(p, n, d, idx)
        cleaned == clearTimeout(ts, eff.timeoutId)
        delayMs == Delays[d]
    IN  IF deps = eff.deps THEN [timers |-> ts, eff |-> eff]
        ELSE IF ~p \/ TooFewImages(n)
        THEN [timers |-> cleaned,
              eff |-> [deps |-> deps, timeoutId |-> {}]]
        ELSE [timers |-> cleaned \cup {setTimeout(deps, delayMs)},
              eff |-> [deps |-> deps, timeoutId |-> {deps}]]

\* ---------------------------------------------------- animation effect
AnimDeps(idx, imgs, s, sh) ==
    [currentIndex |-> idx, images |-> imgs, speed |-> s, shade |-> sh]

\* what one run of the effect fixes for all frames of its loop; draw holds
\* the two random numbers of the run, size the canvas size it read
Transition(deps, draw, size) ==
    [deps |-> deps,
     entry |-> deps.images[deps.currentIndex + 1],
     duration |-> Durations[deps.speed],
     size |-> size,
     jitter |-> draw.jitter,
     angle |-> draw.angle]

\* requestAnimationFrame(render): the handle names the loop and whether the
\* request is the one of the effect body (0) or one made by render (1);
\* last is the timestamp of the frame in which render made the request
requestAnimationFrame(trans, gen, last) ==
    [id |-> <<trans.deps, gen>>, trans |-> trans, last |-> last]

\* variant of cancelAnimationFrame: the effect returns no cleanup
cancelAnimationFrameMissing(fs, id) == fs

cancelAnimationFrame(fs, id) == {f \in fs : f.id \notin id}

AnimationEffect(fs, eff, idx, imgs, s, sh, draw) ==
    LET deps == AnimDeps(idx, imgs, s, sh)
        cleaned == cancelAnimationFrame(fs, eff.frameId)
        frame == requestAnimationFrame(Transition(deps, draw, canvas), 0,
                                       NoStamp)
    IN  IF deps = eff.deps THEN [frames |-> fs, eff |-> eff]
        ELSE IF Len(imgs) = 0
        THEN [frames |-> cleaned,
              eff |-> [deps |-> deps, frameId |-> {}]]
        ELSE [frames |-> cleaned \cup {frame},
              eff |-> [deps |-> deps, frameId |-> {frame.id}]]

\* the two calls of Math.random() in one run of the animation effect
RandomDraws == [jitter : platform.randoms, angle : platform.randoms]

\* the draws of a run for the dependencies deps: the body calls
\* Math.random() when the dependencies changed and the list is not empty
DrawsOf(deps) ==
    IF deps # animEffect.deps /\ Len(deps.images) > 0 THEN RandomDraws
    ELSE {[jitter |-> 0, angle |-> 0]}

\* both effects run against the state of the committed render
RunEffects(imgs, idx, p, s, d, sh) ==
    \E draw \in DrawsOf(AnimDeps(idx, imgs, s, sh)) :
        LET a == AdvanceEffect(timers, timerEffect, p, Len(imgs), d, idx)
            b == AnimationEffect(frames, animEffect, idx, imgs, s, sh, draw)
        IN  /\ timers' = a.timers
            /\ timerEffect' = a.eff
            /\ frames' = b.frames
            /\ animEffect' = b.eff

EffectsPending ==
    \/ timerEffect.deps # TimerDeps(isPlaying, Len(images), delay, currentIndex)
    \/ animEffect.deps # AnimDeps(currentIndex, images, speed, shade)

Idle == mounted /\ rolling = NotRolling

\* ----------------------------------------------------- the audio element
\* the files a user can choose: one the browser can decode, one it cannot
AudioFiles == {"good", "bad"}

\* the element after the first render: no source, paused, and the volume
\* set by the first run of the volume effect
NoAudio ==
    [src |-> "none", network |-> "empty", paused |-> TRUE, promise |-> "none",
     loop |-> FALSE, volume |-> Volumes[50]]

\* the pending play promises are resolved or rejected
Settle(a, how) ==
    IF a.promise = "pending" THEN [a EXCEPT !.promise = how] ELSE a

\* `audioRef.current.src = url`: the element loads the new source; an
\* element that had a source is paused and its pending promises rejected
load(a, file) ==
    LET b == IF a.network # "empty"
             THEN [Settle(a, "rejected") EXCEPT !.paused = TRUE]
             ELSE a
    IN  [b EXCEPT !.src = file, !.network = "loading"]

\* play(): rejected at once when the browser does not allow playback or the
\* source has failed to load; otherwise the element is no longer paused, and
\* the promise is resolved once there is data to play
play(a, allowed) ==
    IF ~allowed \/ a.network = "failed"
    THEN [a EXCEPT !.promise = "rejected"]
    ELSE [a EXCEPT !.paused = FALSE,
                   !.promise = IF a.network = "loaded" THEN "fulfilled"
                               ELSE "pending"]

\* pause(): the element is paused and its pending promises rejected
pause(a) == [Settle(a, "rejected") EXCEPT !.paused = TRUE]

\* `audioRef.current.paused`, the test of handleToggleAudio
TogglePlays(a) == a.paused

\* ------------------------------------------------------------------ Init
\* the component after its first render and the first run of its effects
InitApp ==
    /\ images = <<>>
    /\ currentIndex = 0
    /\ isPlaying = FALSE
    /\ speed = 60
    /\ delay = 40
    /\ shade = 20
    /\ volume = 50
    /\ batches = <<>>
    /\ timers = {}
    /\ timerEffect = [deps |-> TimerDeps(FALSE, 0, 40, 0), timeoutId |-> {}]
    /\ frames = {}
    /\ animEffect = [deps |-> AnimDeps(0, <<>>, 60, 20), frameId |-> {}]
    /\ rolling = NotRolling
    /\ mounted = TRUE
    /\ sliderMoves = 0
    /\ container = <<800, 600>>
    /\ canvas = container
    /\ audio = NoAudio

NoCall == [fn |-> "none", arg |-> 0, applied |-> FALSE, out |-> Exact(0)]

\* a browser in which a frame callback runs either in the middle or at the
\* end of its transition, Math.random() gives one number, and the window
\* keeps its size
CoarsePlatform ==
    [stamps |-> {1, TicksPerTransition}, randoms |-> {0},
     sizes |-> {<<800, 600>>}]

\* the browsers of the animation: each gives every value of one of the
\* three inputs (timestamps, random numbers, window sizes)
AnimPlatforms ==
    {[CoarsePlatform EXCEPT !.stamps = Timestamps],
     [CoarsePlatform EXCEPT !.randoms = Randoms],
     [CoarsePlatform EXCEPT !.sizes = ContainerSizes]}

Init ==
    /\ InitApp
    /\ call = NoCall
    /\ platform = CoarsePlatform
    /\ painted = NotKept

\* ---------------------------------------------------------- image upload
\* handleImageUpload: the change event of the file input with n files
handleImageUpload ==
    /\ Idle
    /\ UNCHANGED <<apart, painted>>
    /\ \E n \in 0..(MaxFiles - FilesIn(batches)) :
         IF n = 0 THEN UNCHANGED vars
         ELSE /\ batches' = Append(batches,
                                   [n |-> n,
                                    status |-> [i \in 1..n |-> "decoding"],
                                    isPlaying |-> isPlaying])
              /\ UNCHANGED <<reactState, effectState, rolling, mounted, sliderMoves>>

\* img.onload of file i of batch b
ImageOnload ==
    /\ Idle
    /\ UNCHANGED <<apart, painted>>
    /\ \E b \in 1..Len(batches) : \E i \in 1..batches[b].n :
         /\ batches[b].status[i] = "decoding"
         /\ LET st == [batches[b].status EXCEPT ![i] = "loaded"]
            IN  /\ batches' = [batches EXCEPT ![b].status = st]
                /\ IF BatchFinished(st, batches[b].n)
                   THEN /\ images' = images \o newEntries(b)
                        /\ isPlaying' = IF ~batches[b].isPlaying THEN TRUE
                                        ELSE isPlaying
                   ELSE /\ UNCHANGED <<images, isPlaying>>
         /\ UNCHANGED <<currentIndex, sliders, effectState, rolling, mounted, sliderMoves>>

\* the decode of file i of batch b fails; the image has no onerror handler
ImageDecodeFails ==
    /\ Idle
    /\ UNCHANGED <<apart, painted>>
    /\ \E b \in 1..Len(batches) : \E i \in 1..batches[b].n :
         /\ batches[b].status[i] = "decoding"
         /\ batches' = [batches EXCEPT ![b].status[i] = "failed"]
    /\ UNCHANGED <<reactState, effectState, rolling, mounted, sliderMoves>>

\* -------------------------------------------------------------- controls
\* variant of PlayPauseDisabled: the button has no disabled attribute
PlayPauseNeverDisabled == FALSE

\* the disabled attribute of the Play/Pause button
PlayPauseDisabled == Len(images) = 0

PlayPauseClick ==
    /\ Idle
    /\ UNCHANGED <<apart, painted>>
    /\ IF PlayPauseDisabled
       THEN UNCHANGED <<reactState, effectState>>
       ELSE /\ isPlaying' = ~isPlaying
            /\ UNCHANGED <<images, currentIndex, sliders>>
            /\ RunEffects(images, currentIndex, ~isPlaying, speed, delay, shade)
    /\ UNCHANGED <<batches, rolling, mounted, sliderMoves>>

SetSpeed ==
    /\ Idle
    /\ UNCHANGED <<apart, painted>>
    /\ sliderMoves < MaxSliderMoves
    /\ sliderMoves' = sliderMoves + 1
    /\ \E v \in SpeedValues :
         /\ v # speed
         /\ speed' = v
         /\ RunEffects(images, currentIndex, isPlaying, v, delay, shade)
    /\ UNCHANGED <<images, currentIndex, isPlaying, delay, shade, volume,
                   batches, rolling, mounted>>

SetDelay ==
    /\ Idle
    /\ UNCHANGED <<apart, painted>>
    /\ sliderMoves < MaxSliderMoves
    /\ sliderMoves' = sliderMoves + 1
    /\ \E v \in DelayValues :
         /\ v # delay
         /\ delay' = v
         /\ RunEffects(images, currentIndex, isPlaying, speed, v, shade)
    /\ UNCHANGED <<images, currentIndex, isPlaying, speed, shade, volume,
                   batches, rolling, mounted>>

SetShade ==
    /\ Idle
    /\ UNCHANGED <<apart, painted>>
    /\ sliderMoves < MaxSliderMoves
    /\ sliderMoves' = sliderMoves + 1
    /\ \E v \in ShadeValues :
         /\ v # shade
         /\ shade' = v
         /\ RunEffects(images, currentIndex, isPlaying, speed, delay, v)
    /\ UNCHANGED <<images, currentIndex, isPlaying, speed, delay, volume,
                   batches, rolling, mounted>>

SetVolume ==
    /\ Idle
    /\ UNCHANGED <<call, canvas, container, platform, painted>>
    /\ sliderMoves < MaxSliderMoves
    /\ sliderMoves' = sliderMoves + 1
    /\ \E v \in VolumeValues :
         /\ v # volume
         /\ volume' = v
         /\ audio' = [audio EXCEPT !.volume = Volumes[v]]
         /\ RunEffects(images, currentIndex, isPlaying, speed, delay, shade)
    /\ UNCHANGED <<images, currentIndex, isPlaying, speed, delay, shade,
                   batches, rolling, mounted>>

\* ------------------------------------------------------- deferred effects
FlushEffects ==
    /\ Idle
    /\ UNCHANGED <<apart, painted>>
    /\ EffectsPending
    /\ RunEffects(images, currentIndex, isPlaying, speed, delay, shade)
    /\ UNCHANGED <<reactState, batches, rolling, mounted, sliderMoves>>

\* ---------------------------------------------------------- advance timer
\* the timeout callback: setCurrentIndex with the updater of lines 201-208
TimerFires ==
    /\ Idle
    /\ UNCHANGED <<apart, painted>>
    /\ \E t \in timers :
         /\ timers' = timers \ {t}
         /\ rolling' = IF TooFewImages(t.len) THEN NotRolling ELSE t.len
    /\ UNCHANGED <<reactState, batches, timerEffect, frames, animEffect,
                   mounted, sliderMoves>>

\* variant of RandomIndex: Math.round in place of Math.floor
RandomIndexRounded(len) == 0..len

\* the values of Math.floor(Math.random() * len)
RandomIndex(len) == 0..(len - 1)

\* variant of LoopExits: one draw, no loop
LoopExitsAlways(next, prev) == TRUE

\* the loop `while (next === prev)` ends
LoopExits(next, prev) == next # prev

\* one pass of the loop with one random draw; prev is the current index
Reroll ==
    /\ mounted
    /\ UNCHANGED apart
    /\ rolling # NotRolling
    /\ \E next \in RandomIndex(rolling) :
         IF ~LoopExits(next, currentIndex)
         THEN UNCHANGED vars
         ELSE /\ currentIndex' = next
              /\ rolling' = NotRolling
              /\ painted' = IF painted.kept THEN NoPaint ELSE painted
              /\ UNCHANGED <<images, isPlaying, sliders, batches, effectState,
                             mounted, sliderMoves>>

\* -------------------------------------------------------- animation frame
\* `Math.min(1, (time - start) / duration)`, in ticks
Fade(time) == IF TicksPerTransition < time THEN TicksPerTransition ELSE time

\* variant of LoopContinues: render always requests the next frame
LoopContinuesAlways(t) == TRUE

\* `t < 1`
LoopContinues(t) == t < TicksPerTransition

\* the frame callback render(time), with a timestamp after that of the
\* frame before.  frameId is the variable of the effect run that made
\* render: the cleanup of that run reads it
FrameFires ==
    /\ Idle
    /\ UNCHANGED apart
    /\ \E f \in frames : \E time \in platform.stamps :
         LET t == Fade(time)
             more == LoopContinues(t)
             next == requestAnimationFrame(f.trans, 1, time)
         IN  /\ time > f.last
             /\ painted' = IF painted.kept
                           THEN [kept |-> TRUE, drawn |-> TRUE, alpha |-> t,
                                 jitter |-> f.trans.jitter,
                                 angle |-> f.trans.angle]
                           ELSE painted
             /\ frames' = IF more THEN (frames \ {f}) \cup {next}
                          ELSE frames \ {f}
             /\ animEffect' = IF more /\ animEffect.deps = f.trans.deps
                              THEN [animEffect EXCEPT !.frameId = {next.id}]
                              ELSE animEffect
    /\ UNCHANGED <<reactState, batches, timers, timerEffect, rolling, mounted,
                   sliderMoves>>

\* ---------------------------------------------------------------- unmount
Unmount ==
    /\ Idle
    /\ UNCHANGED <<apart, painted>>
    /\ mounted' = FALSE
    /\ \E draw \in DrawsOf(AnimDeps(currentIndex, images, speed, shade)) :
         LET a == AdvanceEffect(timers, timerEffect, isPlaying, Len(images),
                                delay, currentIndex)
             b == AnimationEffect(frames, animEffect, currentIndex, images,
                                  speed, shade, draw)
         IN  /\ timers' = clearTimeout(a.timers, a.eff.timeoutId)
             /\ frames' = cancelAnimationFrame(b.frames, b.eff.frameId)
             /\ timerEffect' = a.eff
             /\ animEffect' = b.eff
    /\ UNCHANGED <<reactState, batches, rolling, sliderMoves>>

Next ==
    \/ handleImageUpload
    \/ ImageOnload
    \/ ImageDecodeFails
    \/ PlayPauseClick
    \/ SetSpeed
    \/ SetDelay
    \/ SetShade
    \/ SetVolume
    \/ FlushEffects
    \/ TimerFires
    \/ Reroll
    \/ FrameFires
    \/ Unmount

Spec == Init /\ [][Next]_vars

\* ------------------------------------------------ the mapping functions
\* the input of the first application is drawn from the slider positions
InitCalls ==
    /\ InitApp
    /\ call \in {[NoCall EXCEPT !.fn = f, !.arg = a] :
                    f \in {"mapSpeedToDuration", "mapDelayToMs"},
                    a \in SliderRange}
    /\ platform = CoarsePlatform
    /\ painted = NotKept

\* the first application is to the input drawn, a later one to any position
Applies(a) == call.applied \/ a = call.arg

CallMapSpeedToDuration ==
    /\ call.fn = "mapSpeedToDuration"
    /\ \E a \in SliderRange :
         /\ Applies(a)
         /\ call' = [call EXCEPT !.arg = a, !.applied = TRUE,
                                 !.out = mapSpeedToDuration(a)]
    /\ UNCHANGED <<reactState, batches, effectState, rolling, mounted,
                   sliderMoves, canvas, container, platform, painted, audio>>

CallMapDelayToMs ==
    /\ call.fn = "mapDelayToMs"
    /\ \E a \in SliderRange :
         /\ Applies(a)
         /\ call' = [call EXCEPT !.arg = a, !.applied = TRUE,
                                 !.out = mapDelayToMs(a)]
    /\ UNCHANGED <<reactState, batches, effectState, rolling, mounted,
                   sliderMoves, canvas, container, platform, painted, audio>>

NextCalls == CallMapSpeedToDuration \/ CallMapDelayToMs

SpecCalls == InitCalls /\ [][NextCalls]_vars

\* --------------------------------------------------------- the animation
\* variant of resize: the handler leaves the canvas as it is
resizeKeeps(size, client) == size

\* resize(): the canvas gets the client size of its parent
resize(size, client) == client

\* a resize event of the window, with the new client size of the container;
\* the listener is registered while the component is mounted
WindowResize ==
    /\ rolling = NotRolling
    /\ \E client \in platform.sizes :
         /\ client # container
         /\ container' = client
         /\ canvas' = IF mounted THEN resize(canvas, client) ELSE canvas
    /\ UNCHANGED <<reactState, batches, effectState, rolling, mounted,
                   sliderMoves, call, platform, painted, audio>>

\* The component right after the onload callback of the second file of a
\* first batch of two files; the effects of that commit have not run yet.
InitAnim ==
    /\ images = <<<<1, 1>>, <<1, 2>>>>
    /\ currentIndex = 0
    /\ isPlaying = TRUE
    /\ speed = 60
    /\ delay = 40
    /\ shade = 20
    /\ volume = 50
    /\ batches = <<[n |-> 2, status |-> [i \in 1..2 |-> "loaded"],
                    isPlaying |-> FALSE]>>
    /\ timers = {}
    /\ timerEffect = [deps |-> TimerDeps(FALSE, 0, 40, 0), timeoutId |-> {}]
    /\ frames = {}
    /\ animEffect = [deps |-> AnimDeps(0, <<>>, 60, 20), frameId |-> {}]
    /\ rolling = NotRolling
    /\ mounted = TRUE
    /\ sliderMoves = 0
    /\ container = <<800, 600>>
    /\ canvas = container
    /\ call = NoCall
    /\ platform \in AnimPlatforms
    /\ painted = NoPaint
    /\ audio = NoAudio

\* the steps that start, cancel or run a transition, or size the canvas
NextAnim ==
    \/ handleImageUpload
    \/ ImageOnload
    \/ SetSpeed
    \/ SetShade
    \/ FlushEffects
    \/ TimerFires
    \/ Reroll
    \/ FrameFires
    \/ Unmount
    \/ WindowResize

SpecAnim == InitAnim /\ [][NextAnim]_vars

\* The browser runs a requested frame callback in its next frame, and the
\* random draws of the updater do not repeat the current index forever.
SpecAnimFair == SpecAnim /\ WF_vars(FrameFires) /\ WF_vars(Reroll)

\* ------------------------------------------------------------- the audio
\* handleAudioUpload: the change event of the audio input, with no file or
\* with one; the browser allows the play request or blocks it
handleAudioUpload ==
    /\ Idle
    /\ \E file \in AudioFiles \cup {"none"} : \E allowed \in BOOLEAN :
         audio' = IF file = "none" THEN audio
                  ELSE play([load(audio, file) EXCEPT !.loop = TRUE], allowed)
    /\ UNCHANGED <<reactState, batches, effectState, rolling, mounted,
                   sliderMoves, call, canvas, container, platform, painted>>

\* handleToggleAudio: a click on the audio toggle
handleToggleAudio ==
    /\ Idle
    /\ \E allowed \in BOOLEAN :
         audio' = IF TogglePlays(audio) THEN play(audio, allowed)
                  ELSE pause(audio)
    /\ UNCHANGED <<reactState, batches, effectState, rolling, mounted,
                   sliderMoves, call, canvas, container, platform, painted>>

\* the browser finishes the load of the source: a file it can decode plays
\* if the element is not paused, and resolves the pending promises; a file
\* it cannot decode rejects them. The handlers given to catch() do nothing.
AudioLoads ==
    /\ Idle
    /\ audio.network = "loading"
    /\ audio' = IF audio.src = "good"
                THEN [(IF audio.paused THEN audio
                       ELSE Settle(audio, "fulfilled"))
                         EXCEPT !.network = "loaded"]
                ELSE [Settle(audio, "rejected") EXCEPT !.network = "failed"]
    /\ UNCHANGED <<reactState, batches, effectState, rolling, mounted,
                   sliderMoves, call, canvas, container, platform, painted>>

\* the audio controls, next to the upload of images and Play/Pause
NextAudio ==
    \/ handleAudioUpload
    \/ handleToggleAudio
    \/ AudioLoads
    \/ SetVolume
    \/ handleImageUpload
    \/ ImageOnload
    \/ PlayPauseClick
    \/ FlushEffects

SpecAudio == Init /\ [][NextAudio]_vars

\* ----------------------------------------------------- the advance timer
\* the steps that arm, clear or run the advance timer
NextAdvance ==
    \/ handleImageUpload
    \/ ImageOnload
    \/ PlayPauseClick
    \/ SetDelay
    \/ FlushEffects
    \/ TimerFires
    \/ Reroll
    \/ Unmount

SpecAdvance == Init /\ [][NextAdvance]_vars

\* The browser runs a timeout callback that is due and React runs pending
\* effects; a draw of Math.random() that ends the loop of the updater is
\* not avoided forever.
SpecAdvanceFair ==
    /\ SpecAdvance
    /\ WF_vars(TimerFires)
    /\ WF_vars(FlushEffects)
    /\ WF_vars(Reroll)

\* ================================================================ claims
\* positions of the image list that hold an entry of batch b
PositionsOf(b) == {k \in 1..Len(images) : images[k][1] = b}

AllLoaded(b) == \A i \in 1..batches[b].n : batches[b].status[i] = "loaded"

NoneDecoding(b) == \A i \in 1..batches[b].n : batches[b].status[i] # "decoding"

InList(e) == \E k \in 1..Len(images) : images[k] = e

\* a timeout callback ran in this step (a cleanup changes timerEffect or
\* mounted when it removes a timer)
Fired == timers' # timers /\ UNCHANGED <<timerEffect, mounted>>

\* C1: a batch whose files all decode is appended in one step with all its
\* entries: in every state the list holds either no entry of the batch (not
\* all files have loaded yet) or each of its N entries exactly once (all
\* have), and a step that changes the list appends one whole batch.
C1_BatchAppendedAtomically ==
    /\ [](\A b \in 1..Len(batches) :
            IF AllLoaded(b)
            THEN /\ Cardinality(PositionsOf(b)) = batches[b].n
                 /\ \A i \in 1..batches[b].n : InList(<<b, i>>)
            ELSE PositionsOf(b) = {})
    /\ [][images' # images =>
            \E b \in 1..Len(batches) :
                /\ PositionsOf(b) = {}
                /\ images' = images \o newEntries(b)]_vars

\* a batch of two files is in the list while another batch still decodes
C1_Witness ==
    \E b, c \in 1..Len(batches) :
        /\ b # c
        /\ batches[b].n = 2
        /\ AllLoaded(b)
        /\ Cardinality(PositionsOf(b)) = 2
        /\ ~NoneDecoding(c)

\* C2: once no file of a batch is decoding any more, the list holds an entry
\* for exactly those files of the batch that decoded: none for a failed
\* file, one for every file that loaded.
C2_DecodedFilesOfFailedBatchAppended ==
    \A b \in 1..Len(batches) :
        NoneDecoding(b) =>
            \A i \in 1..batches[b].n :
                InList(<<b, i>>) <=> batches[b].status[i] = "loaded"

\* C3: with a non-empty list currentIndex is an index of the list, and the
\* step that appends a batch leaves currentIndex unchanged.
C3_CurrentIndexValid ==
    /\ [](Len(images) > 0 => currentIndex \in 0..(Len(images) - 1))
    /\ [][images' # images => currentIndex' = currentIndex]_vars

\* a batch was appended while the second image was the current one
C3_Witness ==
    /\ Len(images) = 3
    /\ currentIndex = 1
    /\ timerEffect.deps.len = 2
    /\ timerEffect.deps.currentIndex = 1

\* C4: with at least two images every firing of the advance timer runs the
\* selection, and the selection ends on an index of the list that differs
\* from the index that was current before the firing.
C4_AdvancePicksDifferentIndex ==
    /\ [][Fired /\ Len(images) >= 2 => rolling' # NotRolling]_vars
    /\ [][rolling # NotRolling /\ rolling' = NotRolling =>
            /\ currentIndex' # currentIndex
            /\ currentIndex' \in 0..(Len(images) - 1)]_vars

\* the timer fired and moved the current index away from the first image
C4_Witness ==
    /\ Len(images) >= 2
    /\ currentIndex # 0
    /\ rolling = NotRolling

\* C5: the reroll loop never runs with one image: whenever the loop runs,
\* a draw that ends it exists, and while the list has exactly one image the
\* loop does not run, no advance timer is pending and currentIndex is 0.
C5_NoHangWithOneImage ==
    /\ rolling # NotRolling =>
           \E next \in RandomIndex(rolling) : LoopExits(next, currentIndex)
    /\ Len(images) = 1 =>
           /\ rolling = NotRolling
           /\ timers = {}
           /\ currentIndex = 0

\* the advance effect ran while playing with exactly one image loaded
C5_Witness ==
    /\ Len(images) = 1
    /\ isPlaying
    /\ timerEffect.deps.len = 1
    /\ timerEffect.deps.isPlaying

\* C6: currentIndex changes only in a step taken while isPlaying is true and
\* the list has at least two entries; while isPlaying is false no advance
\* timer is pending and no selection is running.
C6_AdvanceOnlyWhilePlaying ==
    /\ [][currentIndex' # currentIndex =>
            isPlaying /\ Len(images) >= 2]_vars
    /\ [](~isPlaying => timers = {} /\ rolling = NotRolling)

\* playback was paused after the timer had fired at least once
C6_Witness ==
    /\ ~isPlaying
    /\ Len(images) >= 2
    /\ currentIndex # 0
    /\ timerEffect.deps.isPlaying = FALSE
    /\ timerEffect.deps.currentIndex # 0

\* C7: in the state right after a batch is appended to the list, isPlaying
\* is true.
C7_AppendStartsPlayback ==
    [][images' # images => isPlaying']_vars

\* C8: with no image loaded no step flips isPlaying without appending a
\* batch (the control is disabled); with images loaded a press flips
\* isPlaying and leaves the list, currentIndex and the four sliders as
\* they were.
C8_PlayPauseFrame ==
    [][isPlaying' # isPlaying /\ images' = images =>
         /\ Len(images) > 0
         /\ UNCHANGED <<currentIndex, speed, delay, shade, volume>>]_vars

\* playback was paused by a press while images are loaded
C8_Witness ==
    /\ Len(images) > 0
    /\ ~isPlaying

\* C9: at most one advance timer is pending, none after the component is
\* torn down, and a timer that fires was armed with the play state, image
\* count, delay and current index that hold when it fires.
C9_TimerNeverStale ==
    /\ [](Cardinality(timers) <= 1 /\ (~mounted => timers = {}))
    /\ [][Fired =>
            \A t \in timers \ timers' :
                /\ t.id = TimerDeps(isPlaying, Len(images), delay,
                                    currentIndex)
                /\ t.delayMs = mapDelayToMs(delay)]_vars

\* C10: at most one animation-frame callback is pending, and a pending
\* callback belongs to the loop of the most recent run of the animation
\* effect, whose cleanup holds its handle; so a frame that is drawn is a
\* frame of the most recently started transition.
C10_OneFrameLoop ==
    /\ [](/\ Cardinality(frames) <= 1
          /\ \A f \in frames :
                /\ f.trans.deps = animEffect.deps
                /\ animEffect.frameId = {f.id})
    /\ [][(frames' # frames /\ UNCHANGED <<animEffect.deps, mounted>>) =>
            \A f \in frames \ frames' : f.trans.deps = animEffect.deps]_vars

\* a loop restarted by a change of the current index is past its first frame
C10_Witness ==
    \E f \in frames :
        /\ f.id[2] = 1
        /\ f.trans.deps.currentIndex # 0

\* the function named f has been applied to an input
Applied(f) == call.fn = f /\ call.applied

\* C11: mapSpeedToDuration(0) = 4000, mapSpeedToDuration(100) = 600, of two
\* slider positions the greater has the strictly smaller duration, and the
\* result equals 4000 - 34 * speed at every position 0..100.
C11_SpeedMapLinear ==
    /\ [](Applied("mapSpeedToDuration") =>
            /\ call.arg = 0 => call.out = Exact(4000)
            /\ call.arg = 100 => call.out = Exact(600)
            /\ call.out = Exact(4000 - 34 * call.arg))
    /\ [][Applied("mapSpeedToDuration") /\ call.arg < call'.arg =>
            Less(call'.out, call.out)]_vars

\* C11 as it holds: the end points and the strict decrease as stated; the
\* result equals 4000 - 34 * speed at every position but 58, where the
\* double arithmetic gives a duration above 2028 by less than 2^-30.
C11_SpeedMapLinearBut58 ==
    /\ [](Applied("mapSpeedToDuration") =>
            /\ call.arg = 0 => call.out = Exact(4000)
            /\ call.arg = 100 => call.out = Exact(600)
            /\ call.arg # 58 => call.out = Exact(4000 - 34 * call.arg)
            /\ call.arg = 58 =>
                 /\ Less(Exact(2028), call.out)
                 /\ Less(call.out, AddUlp(Exact(2028), 30)))
    /\ [][Applied("mapSpeedToDuration") /\ call.arg < call'.arg =>
            Less(call'.out, call.out)]_vars

\* the function was applied to position 58 and gave a duration that is not 2028
C11_Witness ==
    /\ Applied("mapSpeedToDuration")
    /\ call.arg = 58
    /\ call.out # Exact(2028)

\* x is within 2^-30 of the integer n
Near(x, n) ==
    \/ x.int = n /\ x.frac[1] = 0 /\ x.frac[2] = 0
    \/ x.int = n - 1 /\ x.frac[1] = Base - 1 /\ x.frac[2] = Base - 1

\* C12: mapDelayToMs(0) = 500, mapDelayToMs(100) = 6000, of two slider
\* positions the greater has the strictly greater delay, and the result
\* equals 500 + 55 * delay at every position 0..100.
C12_DelayMapLinear ==
    /\ [](Applied("mapDelayToMs") =>
            /\ call.arg = 0 => call.out = Exact(500)
            /\ call.arg = 100 => call.out = Exact(6000)
            /\ call.out = Exact(500 + 55 * call.arg))
    /\ [][Applied("mapDelayToMs") /\ call.arg < call'.arg =>
            Less(call.out, call'.out)]_vars

\* C12 as it holds: the end points and the strict increase as stated; the
\* result equals 500 + 55 * delay at every position but 28, 55, 56 and 57,
\* where the double arithmetic gives a delay that is not that integer and
\* differs from it by less than 2^-30.
C12_DelayMapLinearBut4 ==
    /\ [](Applied("mapDelayToMs") =>
            /\ call.arg = 0 => call.out = Exact(500)
            /\ call.arg = 100 => call.out = Exact(6000)
            /\ call.arg \notin {28, 55, 56, 57} =>
                 call.out = Exact(500 + 55 * call.arg)
            /\ call.arg \in {28, 55, 56, 57} =>
                 /\ call.out # Exact(500 + 55 * call.arg)
                 /\ Near(call.out, 500 + 55 * call.arg))
    /\ [][Applied("mapDelayToMs") /\ call.arg < call'.arg =>
            Less(call.out, call'.out)]_vars

\* the function was applied to position 57 and gave a delay below 3635
C12_Witness ==
    /\ Applied("mapDelayToMs")
    /\ call.arg = 57
    /\ Less(call.out, Exact(3635))

\* a frame callback ran in this step (a run of the effect changes
\* animEffect.deps, the unmount changes mounted)
FrameDrawn == frames' # frames /\ UNCHANGED <<animEffect.deps, mounted>>

\* C13: while the component is mounted the canvas has the client size of
\* its container, after the mount and after every resize event of the
\* window, so every frame is drawn on a canvas of the size of the latest
\* resize.
C13_CanvasFitsContainer ==
    /\ [](mounted => canvas = container)
    /\ [][FrameDrawn => canvas = container /\ canvas' = container']_vars

\* a transition that began after a resize of the window has drawn a frame
C13_Witness ==
    /\ canvas = <<400, 300>>
    /\ \E f \in frames :
         /\ f.trans.size = <<400, 300>>
         /\ f.last # NoStamp

\* C14: between two consecutive changes of currentIndex every frame drawn
\* uses the same jitter and the same angle, whatever happens in between.
C14_DrawsHeldForDisplay ==
    [][painted.drawn /\ painted'.drawn =>
         /\ painted'.jitter = painted.jitter
         /\ painted'.angle = painted.angle]_vars

\* C15: the fade value of every frame drawn lies in [0, 1], and from one
\* frame of a transition to its next frame the fade value does not decrease.
C15_FadeClamped ==
    /\ [](painted.drawn =>
            0 <= painted.alpha /\ painted.alpha <= TicksPerTransition)
    /\ [][FrameDrawn =>
            \A f \in frames \ frames' : \A g \in frames' \ frames :
                f.last # NoStamp => Fade(f.last) <= Fade(g.last)]_vars

\* C16: a transition that no run of the animation effect cancels ends: its
\* loop comes to a frame after which no callback is pending.  The frame that
\* ends the loop is drawn with alpha 1, and no callback is pending from then
\* until the effect runs again.
C16_TransitionCompletes ==
    /\ ([]<>(frames = {}) \/ []<><<animEffect.deps' # animEffect.deps>>_vars)
    /\ [][FrameDrawn /\ frames' = {} =>
            painted'.drawn /\ painted'.alpha = TicksPerTransition]_vars
    /\ [][frames = {} /\ frames' # {} =>
            animEffect.deps' # animEffect.deps]_vars

\* the loop of a transition started by a change of the current index has
\* ended with a frame of alpha 1
C16_Witness ==
    /\ frames = {}
    /\ painted.drawn
    /\ painted.alpha = TicksPerTransition
    /\ currentIndex # 0
    /\ animEffect.deps.currentIndex = currentIndex
    /\ mounted

\* the list before the step is a prefix of the list after it
PrefixKept ==
    /\ Len(images) <= Len(images')
    /\ \A k \in 1..Len(images) : images'[k] = images[k]

\* the entries of every batch are next to one another, in selection order
BatchesContiguous ==
    \A k, l \in 1..Len(images) :
        k < l /\ images[k][1] = images[l][1] =>
            /\ images[k][2] < images[l][2]
            /\ \A m \in k..l : images[m][1] = images[k][1]

\* C17 as stated: every step keeps the list as a prefix, the entries of a
\* batch are contiguous and in selection order, and the entries of a batch
\* selected earlier come before those of a batch selected later.
C17_ListInSelectionOrder ==
    /\ [][PrefixKept]_vars
    /\ [](BatchesContiguous)
    /\ [](\A k, l \in 1..Len(images) :
            k < l => images[k][1] <= images[l][1])

\* C17, amended: every step keeps the list as a prefix, the entries of a
\* batch are contiguous and in selection order, and a step that changes the
\* list puts, after all entries already there, the entries of the batch
\* whose last file finished decoding in that step: batches are in the order
\* in which they finished decoding.
C17_ListInCompletionOrder ==
    /\ [][PrefixKept]_vars
    /\ [](BatchesContiguous)
    /\ [][images' # images =>
            \E b \in 1..Len(batches) :
                /\ ~AllLoaded(b)
                /\ \A i \in 1..batches[b].n : batches'[b].status[i] = "loaded"
                /\ \A k \in 1..Len(images') :
                       k > Len(images) <=> images'[k][1] = b]_vars

\* the batch selected second, of two files, finished first and is in front
\* of the batch selected first
C17_Witness ==
    /\ Len(images) = 3
    /\ images[1] = <<2, 1>>
    /\ images[2] = <<2, 2>>
    /\ images[3] = <<1, 1>>

\* a play promise is rejected in this step
Rejected == audio.promise # "rejected" /\ audio'.promise = "rejected"

\* C18: a step in which a play request is rejected leaves the audio paused
\* and the state of the player, its batches, timers and frames unchanged;
\* in every state that follows a rejection the audio is paused, so that the
\* next press of the toggle asks for playback; a press of the toggle while
\* the audio is not paused pauses it, and a press while it is paused whose
\* request is not rejected leaves it not paused.
C18_RejectedPlaySwallowed ==
    /\ [][Rejected =>
            /\ audio'.paused
            /\ UNCHANGED <<reactState, batches, effectState, mounted>>]_vars
    /\ [](audio.promise = "rejected" => audio.paused)
    /\ [][handleToggleAudio =>
            IF audio.paused
            THEN audio'.promise # "rejected" => ~audio'.paused
            ELSE audio'.paused]_vars

\* the player runs with playback on and at least two images
Advancing == mounted /\ isPlaying /\ Len(images) >= 2

\* C19: in a run in which, from some point on, the component stays mounted
\* with isPlaying true and at least two images (so no Play/Pause press and,
\* the slider moves and uploads being finite, no further change of the
\* inputs of the timer), currentIndex changes infinitely often; once the
\* effects have run in such a state a timer is armed or its updater runs;
\* and a reroll loop that has started ends.
C19_AdvanceKeepsGoing ==
    /\ ([]<>(~Advancing) \/ []<><<currentIndex' # currentIndex>>_vars)
    /\ [](Advancing /\ ~EffectsPending =>
            timers # {} \/ rolling # NotRolling)
    /\ (rolling # NotRolling ~> rolling = NotRolling)

\* the timer has fired and been armed again: the index has moved away from
\* 0 and a timer armed at the new index is pending
C19_Witness ==
    /\ Advancing
    /\ ~EffectsPending
    /\ currentIndex = 2
    /\ \E t \in timers : t.id.currentIndex = 2 /\ t.id.len = 3

\* C20: whenever isPlaying is true the image list is non-empty.
C20_PlayingHasImages == isPlaying => Len(images) > 0

\* playback is on with images loaded while a batch that was selected during
\* playback is still decoding
C20_Witness ==
    /\ isPlaying
    /\ Len(images) > 0
    /\ \E b \in 1..Len(batches) : batches[b].isPlaying /\ ~NoneDecoding(b)

====
